---- MODULE Spec2Model ----
(***************************************************************************)
(* The two-tier response cache of imdbapi.bareapi.caching:                 *)
(*   LruStore                         caching.py   (the Hot Cache)         *)
(*   SQLiteKeyValueStore              caching.py   (the Durable Store)     *)
(*   RequestsSQLiteBackedMemoryCache  req_cache.py (the Cache Coordinator) *)
(* An exception raised by the Python code is modelled as the field         *)
(* "raised" of the operation's outcome, together with the state the        *)
(* operation had reached when it raised.                                   *)
(***************************************************************************)
EXTENDS Integers, Sequences, FiniteSets, TLC

\* ---------------------------------------------------------------- bounds
MaxSize == 2
NumKeys == 2
NumContents == 2
NumThreads == 2

\* the largest max_size a store is constructed with
Capacities == 0..MaxSize
\* request URLs
Keys == 1..NumKeys
\* response bodies; body 0 is a JSON body whose errorMessage is not empty
Contents == 0..NumContents
\* threads that call the same coordinator
Threads == 1..NumThreads

\* Python's None, as a stored value or a return value
None == -1
\* no exception was raised
NoException == "none"
\* requests.Response().status_code of a response that was never sent
NoStatus == "None"
StatusCodes == {"200", "404"}

VARIABLES
    max_size,      \* LruStore.max_size (also the deque's maxlen)
    storage,       \* LruStore.storage: key -> value
    usage_order,   \* LruStore.usage_order: least recently used first
    file_cache,    \* the rows of the SQLite table cache: key -> value
    res,           \* what the last call did and gave back
    touched,       \* history: the distinct keys put or got, last touched last
    callers,       \* per thread: where it is in its call, and its locals
    fetched        \* history: per key, the last good payload fetched

vars == <<max_size, storage, usage_order, file_cache, res, touched, callers, fetched>>

\* ------------------------------------------------------- dict and deque
EmptyDict == [k \in {} |-> 0]

DictSet(d, key, value) ==
    [k \in (DOMAIN d) \cup {key} |-> IF k = key THEN value ELSE d[k]]

DictDel(d, key) == [k \in (DOMAIN d) \ {key} |-> d[k]]

Elems(seq) == {seq[i] : i \in 1..Len(seq)}

\* deque.remove(x): drops the first occurrence of x
RECURSIVE DequeRemove(_, _)
DequeRemove(seq, x) ==
    IF seq = <<>> THEN <<>>
    ELSE IF Head(seq) = x THEN Tail(seq)
    ELSE <<Head(seq)>> \o DequeRemove(Tail(seq), x)

\* deque.append(x) on a deque built with maxlen: a full deque drops its
\* leftmost element, and a deque of maxlen 0 stays empty
DequeAppend(seq, x, maxlen) ==
    IF maxlen = 0 THEN <<>>
    ELSE IF Len(seq) >= maxlen THEN Append(Tail(seq), x)
    ELSE Append(seq, x)

\* ------------------------------------------------------------- LruStore
\* the outcome of one LruStore operation
LruOutcome(st, ord, ret, exc) ==
    [storage |-> st, usage_order |-> ord, ret |-> ret, raised |-> exc]

\* mutant: membership is looked up in the recency order
LruStore_contains_ByOrder(st, key) == key \in Elems(usage_order)

LruStore_contains(st, key) == key \in DOMAIN st

\* mutant: the lookup returns the value and leaves the recency order alone
LruStore_getitem_NoTouch(st, ord, key) ==
    IF key \in DOMAIN st
    THEN LruOutcome(st, ord, st[key], NoException)
    ELSE LruOutcome(st, ord, None, "KeyError")

\* mutant: a hit re-inserts the key as a put does, evicting the least
\* recently used key of a full store
LruStore_getitem_Reinsert(st, ord, key) ==
    IF key \in DOMAIN st
    THEN IF Len(ord) = max_size /\ ord # <<>>
         THEN LruOutcome(DictSet(DictDel(st, Head(ord)), key, st[key]),
                         Append(Tail(ord), key), st[key], NoException)
         ELSE LruOutcome(st, Append(ord, key), st[key], NoException)
    ELSE LruOutcome(st, ord, None, "KeyError")

LruStore_getitem(st, ord, key) ==
    IF key \in DOMAIN st
    THEN IF key \notin Elems(ord)
         THEN LruOutcome(st, ord, None, "ValueError")
         ELSE LruOutcome(st,
                         DequeAppend(DequeRemove(ord, key), key, max_size),
                         st[key], NoException)
    ELSE LruOutcome(st, ord, None, "KeyError")

LruStore_setitem(st, ord, key, value) ==
    IF Len(ord) = max_size
    THEN IF ord = <<>>
         THEN LruOutcome(st, ord, None, "IndexError")
         ELSE LET olditem == Head(ord)
                  popped == Tail(ord)
              IN  IF olditem \notin DOMAIN st
                  THEN LruOutcome(st, popped, None, "KeyError")
                  ELSE LruOutcome(DictSet(DictDel(st, olditem), key, value),
                                  DequeAppend(popped, key, max_size),
                                  None, NoException)
    ELSE LruOutcome(DictSet(st, key, value),
                    DequeAppend(ord, key, max_size), None, NoException)

LruStore_delitem(st, ord, key) ==
    IF key \notin Elems(ord)
    THEN LruOutcome(st, ord, None, "ValueError")
    ELSE IF key \notin DOMAIN st
         THEN LruOutcome(st, DequeRemove(ord, key), None, "KeyError")
         ELSE LruOutcome(DictDel(st, key), DequeRemove(ord, key),
                         None, NoException)

\* -------------------------------------------------- SQLiteKeyValueStore
\* mutant: open_db closes the connection without connection.commit()
open_db_NoCommit(rows, after) == rows

\* with open_db(db): the body runs in a transaction of a new connection,
\* which is committed and closed before the with statement ends. rows are
\* the committed rows, after the rows as the body leaves them.
open_db(rows, after) == after

\* SQLiteKeyValueStore(dbpath): CREATE TABLE IF NOT EXISTS keeps the rows
SQLite_init(rows) == open_db(rows, rows)

\* mutant: the INSERT keeps the row that is already there
SQLite_setitem_Ignore(rows, key, value) ==
    IF key \in DOMAIN rows THEN rows ELSE DictSet(rows, key, value)

\* mutant: the INSERT replaces the table's rows by the new row
SQLite_setitem_Truncate(rows, key, value) == [k \in {key} |-> value]

\* INSERT into a table whose key is PRIMARY KEY ON CONFLICT REPLACE
SQLite_setitem(rows, key, value) == open_db(rows, DictSet(rows, key, value))

\* DELETE FROM cache WHERE key = ?
SQLite_delitem(rows, key) == open_db(rows, DictDel(rows, key))

\* SELECT value ... fetchone(): None when there is no row
SQLite_getitem(rows, key) ==
    IF key \in DOMAIN rows THEN rows[key] ELSE None

SQLite_contains(rows, key) == SQLite_getitem(rows, key) # None

\* ------------------------------------------------------------ req_cache
\* what the network gives for one requests.get: an exception, or a
\* response with a status code and a body
FetchOutcomes ==
    {[exc |-> "ConnectionError", status |-> NoStatus, content |-> None]}
    \cup [exc : {NoException}, status : StatusCodes, content : Contents]

\* the network when no request is sent to it
NotAsked == [exc |-> "NotAsked", status |-> NoStatus, content |-> None]

Response(content, status) == [content |-> content, status_code |-> status]

\* the tier operations one call made
NoLog == [fetches |-> 0, memReads |-> 0, memWrites |-> 0,
          fileReads |-> 0, fileWrites |-> 0]

\* the outcome of one call of the coordinator
CallOutcome(st, ord, rows, exc, response, cached, log) ==
    [storage |-> st, usage_order |-> ord, file_cache |-> rows,
     raised |-> exc, response |-> response, cached |-> cached, log |-> log]

NoResponse == Response(None, NoStatus)

do_request(fo) ==
    [content |-> fo.content, response |-> Response(fo.content, fo.status)]

\* mutant: a response rebuilt from a cache tier is flagged as fetched
recreate_request_Fresh(content) ==
    [response |-> Response(content, NoStatus), cached |-> FALSE]

recreate_request(content) ==
    [response |-> Response(content, NoStatus), cached |-> TRUE]

sync_cache(st, ord, rows, url, fo) ==
    IF fo.exc # NoException
    THEN CallOutcome(st, ord, rows, fo.exc, NoResponse, FALSE,
                     [NoLog EXCEPT !.fetches = 1])
    ELSE LET rq == do_request(fo)
             p == LruStore_setitem(st, ord, url, rq.content)
         IN  IF p.raised # NoException
             THEN CallOutcome(p.storage, p.usage_order, rows, p.raised,
                              NoResponse, FALSE,
                              [NoLog EXCEPT !.fetches = 1, !.memWrites = 1])
             ELSE CallOutcome(p.storage, p.usage_order,
                              SQLite_setitem(rows, url, rq.content),
                              NoException, rq.response, FALSE,
                              [NoLog EXCEPT !.fetches = 1, !.memWrites = 1,
                                            !.fileWrites = 1])

normal_call(st, ord, rows, url, fo) ==
    IF LruStore_contains(st, url)
    THEN LET g == LruStore_getitem(st, ord, url)
         IN  IF g.raised # NoException
             THEN CallOutcome(g.storage, g.usage_order, rows, g.raised,
                              NoResponse, FALSE,
                              [NoLog EXCEPT !.memReads = 2])
             ELSE LET rr == recreate_request(g.ret)
                  IN  CallOutcome(g.storage, g.usage_order, rows,
                                  NoException, rr.response, rr.cached,
                                  [NoLog EXCEPT !.memReads = 2])
    ELSE IF SQLite_contains(rows, url)
    THEN LET content == SQLite_getitem(rows, url)
             p == LruStore_setitem(st, ord, url, content)
         IN  IF p.raised # NoException
             THEN CallOutcome(p.storage, p.usage_order, rows, p.raised,
                              NoResponse, FALSE,
                              [NoLog EXCEPT !.memReads = 1, !.fileReads = 2,
                                            !.memWrites = 1])
             ELSE LET rr == recreate_request(content)
                  IN  CallOutcome(p.storage, p.usage_order, rows,
                                  NoException, rr.response, rr.cached,
                                  [NoLog EXCEPT !.memReads = 1,
                                                !.fileReads = 2,
                                                !.memWrites = 1])
    ELSE LET o == sync_cache(st, ord, rows, url, fo)
         IN  [o EXCEPT !.log.memReads = @ + 1, !.log.fileReads = @ + 1]

\* RequestsSQLiteBackedMemoryCache.__call__
call(st, ord, rows, url, sync, fo) ==
    IF sync THEN sync_cache(st, ord, rows, url, fo)
    ELSE normal_call(st, ord, rows, url, fo)

\* ----------------------------------------------- a Durable Store that fails
\* where the SQLite database fails during one call: nowhere, in
\* `url in self.file_cache`, in `self.file_cache[url]`, or in
\* `self.file_cache[url] = content`
DbFaults == {"none", "contains", "getitem", "setitem"}

\* sync_cache when the database may fail: the exception of the INSERT leaves
\* the rows as they were (open_db neither catches nor commits)
sync_cache_db(st, ord, rows, url, fo, db) ==
    LET o == sync_cache(st, ord, rows, url, fo)
    IN  IF db = "setitem" /\ o.log.fileWrites = 1
        THEN CallOutcome(o.storage, o.usage_order, rows, "OperationalError",
                         NoResponse, FALSE, o.log)
        ELSE o

\* normal_call when the database may fail
normal_call_db(st, ord, rows, url, fo, db) ==
    IF LruStore_contains(st, url)
    THEN normal_call(st, ord, rows, url, fo)
    ELSE IF db = "contains"
    THEN CallOutcome(st, ord, rows, "OperationalError", NoResponse, FALSE,
                     [NoLog EXCEPT !.memReads = 1, !.fileReads = 1])
    ELSE IF SQLite_contains(rows, url)
    THEN IF db = "getitem"
         THEN CallOutcome(st, ord, rows, "OperationalError", NoResponse,
                          FALSE,
                          [NoLog EXCEPT !.memReads = 1, !.fileReads = 2])
         ELSE normal_call(st, ord, rows, url, fo)
    ELSE LET o == sync_cache_db(st, ord, rows, url, fo, db)
         IN  [o EXCEPT !.log.memReads = @ + 1, !.log.fileReads = @ + 1]

call_db(st, ord, rows, url, sync, fo, db) ==
    IF sync THEN sync_cache_db(st, ord, rows, url, fo, db)
    ELSE normal_call_db(st, ord, rows, url, fo, db)

\* ---------------------------------------------------------------- state
\* a thread that is in no call
Idle == [pc |-> "idle", url |-> 0, content |-> None, olditem |-> 0,
         ret |-> "none", cold |-> FALSE, fetches |-> 0]

\* the record of the last call
Result(op, key, force, exc, content, status, cached, has, log, hot, dur, net) ==
    [op |-> op, key |-> key, force |-> force, raised |-> exc,
     content |-> content, status |-> status, cached |-> cached, has |-> has,
     log |-> log, preHot |-> hot, preDur |-> dur, net |-> net]

\* RequestsSQLiteBackedMemoryCache(db_path, mem_cache_max_size) on a new
\* database, or LruStore(max_size)
Init ==
    /\ max_size \in Capacities
    /\ storage = EmptyDict
    /\ usage_order = <<>>
    /\ file_cache = EmptyDict
    /\ res = Result("init", 0, FALSE, NoException, None, NoStatus, FALSE,
                    FALSE, NoLog, FALSE, FALSE, NotAsked)
    /\ touched = <<>>
    /\ callers = [t \in Threads |-> Idle]
    /\ fetched = [k \in Keys |-> None]

Touch(seq, key) == Append(DequeRemove(seq, key), key)

\* cache[key] on an LruStore
LruGet(key) ==
    LET g == LruStore_getitem(storage, usage_order, key)
    IN  /\ storage' = g.storage
        /\ usage_order' = g.usage_order
        /\ res' = Result("get", key, FALSE, g.raised, g.ret, NoStatus, FALSE,
                         FALSE, NoLog, key \in DOMAIN storage, FALSE, NotAsked)
        /\ touched' = IF g.raised = NoException THEN Touch(touched, key)
                      ELSE touched
        /\ UNCHANGED <<max_size, file_cache, callers, fetched>>

\* cache[key] = value on an LruStore
LruPut(key, value) ==
    LET p == LruStore_setitem(storage, usage_order, key, value)
    IN  /\ storage' = p.storage
        /\ usage_order' = p.usage_order
        /\ res' = Result("put", key, FALSE, p.raised, value, NoStatus, FALSE,
                         FALSE, NoLog, key \in DOMAIN storage, FALSE, NotAsked)
        /\ touched' = Touch(touched, key)
        /\ UNCHANGED <<max_size, file_cache, callers, fetched>>

\* key in cache, on an LruStore
LruContains(key) ==
    /\ res' = Result("contains", key, FALSE, NoException, None, NoStatus,
                     FALSE, LruStore_contains(storage, key), NoLog,
                     key \in DOMAIN storage, FALSE, NotAsked)
    /\ UNCHANGED <<max_size, storage, usage_order, file_cache, touched,
                   callers, fetched>>

\* del cache[key] on an LruStore
LruRemove(key) ==
    LET d == LruStore_delitem(storage, usage_order, key)
    IN  /\ storage' = d.storage
        /\ usage_order' = d.usage_order
        /\ res' = Result("remove", key, FALSE, d.raised, None, NoStatus,
                         FALSE, FALSE, NoLog, key \in DOMAIN storage, FALSE,
                         NotAsked)
        /\ touched' = DequeRemove(touched, key)
        /\ UNCHANGED <<max_size, file_cache, callers, fetched>>

\* cache(url, sync_cache) on a RequestsSQLiteBackedMemoryCache, the network
\* answering fo if it is asked
Resolve(url, sync, fo) ==
    \E o \in {call(storage, usage_order, file_cache, url, sync, fo)} :
        /\ storage' = o.storage
        /\ usage_order' = o.usage_order
        /\ file_cache' = o.file_cache
        /\ res' = Result("resolve", url, sync, o.raised, o.response.content,
                         o.response.status_code, o.cached, FALSE, o.log,
                         url \in DOMAIN storage, url \in DOMAIN file_cache,
                         IF o.log.fetches = 0 THEN NotAsked ELSE fo)
        /\ UNCHANGED <<max_size, touched, callers, fetched>>

\* whether cache(url, sync_cache) reaches do_request
Fetches(url, sync) ==
    sync \/ (~LruStore_contains(storage, url)
             /\ ~SQLite_contains(file_cache, url))

\* the coordinator
ResolveFetching ==
    \E url \in Keys, sync \in BOOLEAN, fo \in FetchOutcomes :
        Fetches(url, sync) /\ Resolve(url, sync, fo)

ResolveCached ==
    \E url \in Keys : ~Fetches(url, FALSE) /\ Resolve(url, FALSE, NotAsked)

Next == ResolveFetching \/ ResolveCached

Spec == Init /\ [][Next]_vars

\* the record of the last call, with the fault of the database during it
ResultDb(r, db) ==
    [op |-> r.op, key |-> r.key, force |-> r.force, raised |-> r.raised,
     content |-> r.content, status |-> r.status, cached |-> r.cached,
     has |-> r.has, log |-> r.log, preHot |-> r.preHot, preDur |-> r.preDur,
     net |-> r.net, db |-> db]

\* cache(url, sync_cache) when the database fails at db
ResolveDb(url, sync, fo, db) ==
    \E o \in {call_db(storage, usage_order, file_cache, url, sync, fo, db)} :
        /\ storage' = o.storage
        /\ usage_order' = o.usage_order
        /\ file_cache' = o.file_cache
        /\ res' = ResultDb(
                    Result("resolve", url, sync, o.raised,
                           o.response.content, o.response.status_code,
                           o.cached, FALSE, o.log, url \in DOMAIN storage,
                           url \in DOMAIN file_cache,
                           IF o.log.fetches = 0 THEN NotAsked ELSE fo), db)
        /\ UNCHANGED <<max_size, touched, callers, fetched>>

\* the coordinator on a database that may fail
NextDb ==
    \E url \in Keys, sync \in BOOLEAN, fo \in FetchOutcomes, db \in DbFaults :
        ResolveDb(url, sync, fo, db)

SpecDb == Init /\ [][NextDb]_vars

\* an LruStore used on its own
LruGetStep == \E key \in Keys : LruGet(key)
LruPutStep == \E key \in Keys, value \in Contents : LruPut(key, value)
LruContainsStep == \E key \in Keys : LruContains(key)
LruRemoveStep == \E key \in Keys : LruRemove(key)

NextLru == LruGetStep \/ LruPutStep \/ LruContainsStep \/ LruRemoveStep

SpecLru == Init /\ [][NextLru]_vars

\* an LruStore that is only put to and got from
NextPutGet == LruGetStep \/ LruPutStep

SpecPutGet == Init /\ [][NextPutGet]_vars

\* ------------------------------------------- the stores on their own
\* store[key] = value on a SQLiteKeyValueStore
DbPut(key, value) ==
    /\ file_cache' = SQLite_setitem(file_cache, key, value)
    /\ res' = Result("dbput", key, FALSE, NoException, value, NoStatus,
                     FALSE, FALSE, [NoLog EXCEPT !.fileWrites = 1], FALSE,
                     key \in DOMAIN file_cache, NotAsked)
    /\ UNCHANGED <<max_size, storage, usage_order, touched, callers, fetched>>

\* store[key] on a SQLiteKeyValueStore: a SELECT in a transaction of its own
DbGet(key) ==
    /\ file_cache' = open_db(file_cache, file_cache)
    /\ res' = Result("dbget", key, FALSE, NoException,
                     SQLite_getitem(file_cache, key), NoStatus, FALSE,
                     SQLite_contains(file_cache, key),
                     [NoLog EXCEPT !.fileReads = 1], FALSE,
                     key \in DOMAIN file_cache, NotAsked)
    /\ UNCHANGED <<max_size, storage, usage_order, touched, callers, fetched>>

\* del store[key] on a SQLiteKeyValueStore
DbDel(key) ==
    /\ file_cache' = SQLite_delitem(file_cache, key)
    /\ res' = Result("dbdel", key, FALSE, NoException, None, NoStatus,
                     FALSE, FALSE, [NoLog EXCEPT !.fileWrites = 1], FALSE,
                     key \in DOMAIN file_cache, NotAsked)
    /\ UNCHANGED <<max_size, storage, usage_order, touched, callers, fetched>>

DbPutStep == \E key \in Keys, value \in Contents : DbPut(key, value)
DbGetStep == \E key \in Keys : DbGet(key)
DbDelStep == \E key \in Keys : DbDel(key)

\* the LruStore and the SQLiteKeyValueStore share no state: a behaviour uses
\* one of the two stores on its own
LruUnused == storage = EmptyDict /\ usage_order = <<>>
DbUnused == file_cache = EmptyDict

NextStores ==
    \/ DbUnused /\ LruGetStep
    \/ DbUnused /\ LruPutStep
    \/ DbUnused /\ LruContainsStep
    \/ DbUnused /\ LruRemoveStep
    \/ LruUnused /\ DbPutStep
    \/ LruUnused /\ DbGetStep
    \/ LruUnused /\ DbDelStep

SpecStores == Init /\ [][NextStores]_vars

\* ------------------------------------------------------------- restart
\* whether the last call ended with a write to the Durable Store that
\* returned, as the process that crashed had seen it
Acknowledged ==
    IF res.op = "restart" THEN res.has
    ELSE /\ res.raised = NoException
         /\ res.op \in {"dbput", "resolve"}
         /\ res.log.fileWrites = 1

\* the process ends between two calls, for any reason, and a new process
\* builds RequestsSQLiteBackedMemoryCache(db_path, mem_cache_max_size) on
\* the same db_path; res keeps the key and the value of the last call
Restart(size) ==
    /\ max_size' = size
    /\ storage' = EmptyDict
    /\ usage_order' = <<>>
    /\ file_cache' = SQLite_init(file_cache)
    /\ res' = Result("restart", res.key, FALSE, NoException, res.content,
                     NoStatus, FALSE, Acknowledged, NoLog, FALSE, FALSE,
                     NotAsked)
    /\ UNCHANGED <<touched, callers, fetched>>

RestartStep == \E size \in Capacities : Restart(size)

\* a coordinator and its Durable Store, over several processes
NextRestart ==
    ResolveCached \/ DbPutStep \/ DbGetStep \/ RestartStep

SpecRestart == Init /\ [][NextRestart]_vars

\* ------------------------------------------------------------- CacheInfo
\* UseCache.get
UseCache_get(st, ord, rows, url, sync, fo) ==
    call(st, ord, rows, url, sync, fo)

\* mutant: NoCache.get goes through the cache as UseCache.get does
NoCache_get_UseCache(st, ord, rows, url, sync, fo) ==
    call(st, ord, rows, url, sync, fo)

\* NoCache.get: return requests.get(url), False
NoCache_get(st, ord, rows, url, sync, fo) ==
    IF fo.exc # NoException
    THEN CallOutcome(st, ord, rows, fo.exc, NoResponse, FALSE,
                     [NoLog EXCEPT !.fetches = 1])
    ELSE CallOutcome(st, ord, rows, NoException,
                     Response(fo.content, fo.status), FALSE,
                     [NoLog EXCEPT !.fetches = 1])

\* CacheInfo.no_cache().get(url, sync_cache) in a process that also holds a
\* coordinator
NoCacheGet(url, sync, fo) ==
    \E o \in {NoCache_get(storage, usage_order, file_cache, url, sync, fo)} :
        /\ storage' = o.storage
        /\ usage_order' = o.usage_order
        /\ file_cache' = o.file_cache
        /\ res' = Result("nocache", url, sync, o.raised, o.response.content,
                         o.response.status_code, o.cached, FALSE, o.log,
                         url \in DOMAIN storage, url \in DOMAIN file_cache,
                         fo)
        /\ UNCHANGED <<max_size, touched, callers, fetched>>

\* CacheInfo.of(db_path, mem_cache_max_size).get(url, sync_cache)
UseCacheGet(url, sync, fo) ==
    /\ IF Fetches(url, sync) THEN fo \in FetchOutcomes ELSE fo = NotAsked
    /\ \E o \in {UseCache_get(storage, usage_order, file_cache, url, sync,
                              fo)} :
        /\ storage' = o.storage
        /\ usage_order' = o.usage_order
        /\ file_cache' = o.file_cache
        /\ res' = Result("resolve", url, sync, o.raised, o.response.content,
                         o.response.status_code, o.cached, FALSE, o.log,
                         url \in DOMAIN storage, url \in DOMAIN file_cache,
                         IF o.log.fetches = 0 THEN NotAsked ELSE fo)
        /\ UNCHANGED <<max_size, touched, callers, fetched>>

NoCacheGetStep ==
    \E url \in Keys, sync \in BOOLEAN, fo \in FetchOutcomes :
        NoCacheGet(url, sync, fo)

\* the calls through the cache are the non-forced ones here; the forced
\* ones are Spec's
UseCacheGetStep ==
    \E url \in Keys, fo \in FetchOutcomes \cup {NotAsked} :
        UseCacheGet(url, FALSE, fo)

\* an ImdbApi with a cache and one without, in one process
NextCacheInfo == UseCacheGetStep \/ NoCacheGetStep

SpecCacheInfo == Init /\ [][NextCacheInfo]_vars

\* ------------------------------------------------- concurrent callers
\* Threads call cache(url) on one coordinator with no lock: a thread switch
\* can fall between any two operations on the dict, the deque or the
\* database, each of which is atomic. Every action is one such operation of
\* normal_call, LruStore.__getitem__, LruStore.__setitem__ or sync_cache.
At(t, pc) == callers[t].pc = pc

Goto(t, pc) ==
    /\ callers' = [callers EXCEPT ![t].pc = pc]
    /\ UNCHANGED <<storage, usage_order, file_cache>>

\* the call of thread t ends: it returns "cached" or "fetched", or raises
Finish(t, ret) ==
    callers' = [callers EXCEPT ![t].pc = "done", ![t].ret = ret]

\* thread t calls cache(url)
Call(t, url) ==
    /\ At(t, "idle") \/ At(t, "done")
    /\ callers' = [callers EXCEPT ![t] =
                     [Idle EXCEPT !.pc = "check_mem", !.url = url,
                                  !.cold = ~LruStore_contains(storage, url)
                                           /\ ~SQLite_contains(file_cache,
                                                               url)]]
    /\ UNCHANGED <<storage, usage_order, file_cache>>

\* normal_call: if url in self.mem_cache
CheckMem(t) ==
    /\ At(t, "check_mem")
    /\ Goto(t, IF LruStore_contains(storage, callers[t].url)
               THEN "get_check" ELSE "check_file")

\* __getitem__: if key in self.storage
GetCheck(t) ==
    /\ At(t, "get_check")
    /\ Goto(t, IF callers[t].url \in DOMAIN storage
               THEN "get_remove" ELSE "get_return")

\* __getitem__: self.usage_order.remove(key)
GetRemove(t) ==
    /\ At(t, "get_remove")
    /\ IF callers[t].url \in Elems(usage_order)
       THEN /\ usage_order' = DequeRemove(usage_order, callers[t].url)
            /\ callers' = [callers EXCEPT ![t].pc = "get_append"]
       ELSE /\ Finish(t, "ValueError")
            /\ UNCHANGED usage_order
    /\ UNCHANGED <<storage, file_cache>>

\* __getitem__: self.usage_order.append(key)
GetAppend(t) ==
    /\ At(t, "get_append")
    /\ usage_order' = DequeAppend(usage_order, callers[t].url, max_size)
    /\ callers' = [callers EXCEPT ![t].pc = "get_return"]
    /\ UNCHANGED <<storage, file_cache>>

\* __getitem__: return self.storage[key], and recreate_request
GetReturn(t) ==
    /\ At(t, "get_return")
    /\ IF callers[t].url \in DOMAIN storage
       THEN callers' = [callers EXCEPT ![t].pc = "done", ![t].ret = "cached",
                                       ![t].content = storage[callers[t].url]]
       ELSE Finish(t, "KeyError")
    /\ UNCHANGED <<storage, usage_order, file_cache>>

\* normal_call: if url in self.file_cache
CheckFile(t) ==
    /\ At(t, "check_file")
    /\ Goto(t, IF SQLite_contains(file_cache, callers[t].url)
               THEN "read_file" ELSE "fetch")

\* normal_call: content = self.file_cache[url]
ReadFile(t) ==
    /\ At(t, "read_file")
    /\ callers' = [callers EXCEPT
                     ![t].pc = "put_len",
                     ![t].content = SQLite_getitem(file_cache, callers[t].url)]
    /\ UNCHANGED <<storage, usage_order, file_cache>>

\* do_request: requests.get(url) is sent
FetchStart(t) ==
    /\ At(t, "fetch")
    /\ callers' = [callers EXCEPT ![t].pc = "fetching", ![t].fetches = 1]
    /\ UNCHANGED <<storage, usage_order, file_cache>>

\* do_request: requests.get(url) returns or raises
FetchEnd(t, fo) ==
    /\ At(t, "fetching")
    /\ IF fo.exc # NoException
       THEN Finish(t, fo.exc)
       ELSE callers' = [callers EXCEPT ![t].pc = "put_len",
                                       ![t].content = do_request(fo).content]
    /\ UNCHANGED <<storage, usage_order, file_cache>>

\* __setitem__: if len(self.usage_order) == self.max_size
PutLen(t) ==
    /\ At(t, "put_len")
    /\ Goto(t, IF Len(usage_order) = max_size THEN "put_old" ELSE "put_store")

\* __setitem__: olditem = self.usage_order[0]
PutOld(t) ==
    /\ At(t, "put_old")
    /\ IF usage_order = <<>>
       THEN Finish(t, "IndexError")
       ELSE callers' = [callers EXCEPT ![t].pc = "put_pop",
                                       ![t].olditem = Head(usage_order)]
    /\ UNCHANGED <<storage, usage_order, file_cache>>

\* __setitem__: self.usage_order.popleft()
PutPop(t) ==
    /\ At(t, "put_pop")
    /\ IF usage_order = <<>>
       THEN /\ Finish(t, "IndexError")
            /\ UNCHANGED usage_order
       ELSE /\ usage_order' = Tail(usage_order)
            /\ callers' = [callers EXCEPT ![t].pc = "put_del"]
    /\ UNCHANGED <<storage, file_cache>>

\* __setitem__: del self.storage[olditem]
PutDel(t) ==
    /\ At(t, "put_del")
    /\ IF callers[t].olditem \in DOMAIN storage
       THEN /\ storage' = DictDel(storage, callers[t].olditem)
            /\ callers' = [callers EXCEPT ![t].pc = "put_store",
                                          ![t].olditem = 0]
       ELSE /\ Finish(t, "KeyError")
            /\ UNCHANGED storage
    /\ UNCHANGED <<usage_order, file_cache>>

\* __setitem__: self.storage[key] = value
PutStore(t) ==
    /\ At(t, "put_store")
    /\ storage' = DictSet(storage, callers[t].url, callers[t].content)
    /\ callers' = [callers EXCEPT ![t].pc = "put_append"]
    /\ UNCHANGED <<usage_order, file_cache>>

\* __setitem__: self.usage_order.append(key); then normal_call returns the
\* promoted content, or sync_cache goes on to the database
PutAppend(t) ==
    /\ At(t, "put_append")
    /\ usage_order' = DequeAppend(usage_order, callers[t].url, max_size)
    /\ IF callers[t].fetches = 0
       THEN Finish(t, "cached")
       ELSE callers' = [callers EXCEPT ![t].pc = "write_file"]
    /\ UNCHANGED <<storage, file_cache>>

\* sync_cache: self.file_cache[url] = content; return result, False
WriteFile(t) ==
    /\ At(t, "write_file")
    /\ file_cache' = SQLite_setitem(file_cache, callers[t].url,
                                    callers[t].content)
    /\ Finish(t, "fetched")
    /\ UNCHANGED <<storage, usage_order>>

\* what no thread's step changes
Frame == UNCHANGED <<max_size, res, touched, fetched>>

NextConc ==
    \/ \E t \in Threads, url \in Keys : Call(t, url) /\ Frame
    \/ \E t \in Threads : CheckMem(t) /\ Frame
    \/ \E t \in Threads : GetCheck(t) /\ Frame
    \/ \E t \in Threads : GetRemove(t) /\ Frame
    \/ \E t \in Threads : GetAppend(t) /\ Frame
    \/ \E t \in Threads : GetReturn(t) /\ Frame
    \/ \E t \in Threads : CheckFile(t) /\ Frame
    \/ \E t \in Threads : ReadFile(t) /\ Frame
    \/ \E t \in Threads : FetchStart(t) /\ Frame
    \/ \E t \in Threads, fo \in FetchOutcomes : FetchEnd(t, fo) /\ Frame
    \/ \E t \in Threads : PutLen(t) /\ Frame
    \/ \E t \in Threads : PutOld(t) /\ Frame
    \/ \E t \in Threads : PutPop(t) /\ Frame
    \/ \E t \in Threads : PutDel(t) /\ Frame
    \/ \E t \in Threads : PutStore(t) /\ Frame
    \/ \E t \in Threads : PutAppend(t) /\ Frame
    \/ \E t \in Threads : WriteFile(t) /\ Frame

SpecConc == Init /\ [][NextConc]_vars

\* ------------------------------------------------------------ the claims
\* the last n elements of seq, as a set
MostRecent(seq, n) == {seq[i] : i \in (Len(seq) - n + 1)..Len(seq)}

Min(a, b) == IF a <= b THEN a ELSE b

\* seq without every occurrence of x
Without(seq, x) == SelectSeq(seq, LAMBDA y : y # x)

\* how many times x occurs in seq
Count(seq, x) == Len(SelectSeq(seq, LAMBDA y : y = x))

NoDuplicates(seq) ==
    \A i, j \in 1..Len(seq) : seq[i] = seq[j] => i = j

\* _request_json: the decoded body carries a non-empty errorMessage
HasErrorMessage(content) == content = 0

\* the fetch failed: a network error, a non-success status, or an error
\* message embedded in the body
FetchFailed(fo) ==
    \/ fo.exc = "ConnectionError"
    \/ fo.exc = NoException
       /\ (fo.status # "200" \/ HasErrorMessage(fo.content))

\* exceptions raised by the bookkeeping of the LruStore
LruErrors == {"IndexError", "KeyError", "ValueError"}

\* cache(url, sync_cache) on a RequestsSQLiteBackedMemoryCache, with the
\* history of the payloads fetched: a fetch that did not fail is noted for
\* its key, whatever the call does after do_request has returned
ResolveNoting(url, sync, fo) ==
    \E o \in {call(storage, usage_order, file_cache, url, sync, fo)} :
        /\ storage' = o.storage
        /\ usage_order' = o.usage_order
        /\ file_cache' = o.file_cache
        /\ res' = Result("resolve", url, sync, o.raised, o.response.content,
                         o.response.status_code, o.cached, FALSE, o.log,
                         url \in DOMAIN storage, url \in DOMAIN file_cache,
                         IF o.log.fetches = 0 THEN NotAsked ELSE fo)
        /\ fetched' = IF o.log.fetches = 1 /\ ~FetchFailed(fo)
                      THEN [fetched EXCEPT ![url] = fo.content]
                      ELSE fetched
        /\ UNCHANGED <<max_size, touched, callers>>

ResolveNotingFetching ==
    \E url \in Keys, sync \in BOOLEAN, fo \in FetchOutcomes :
        Fetches(url, sync) /\ ResolveNoting(url, sync, fo)

ResolveNotingCached ==
    \E url \in Keys :
        ~Fetches(url, FALSE) /\ ResolveNoting(url, FALSE, NotAsked)

\* the coordinator and the history of its fetches
NextNoting == ResolveNotingFetching \/ ResolveNotingCached

SpecNoting == Init /\ [][NextNoting]_vars

\* -------------------------------------------------------- ImdbApi seasons
\* Python values that are season numbers: the int n and the str of n
PyInt(n) == [type |-> "int", n |-> n]
PyStr(n) == [type |-> "str", n |-> n]

\* str(season_num) and int(season_num), of an int or of a str
str(v) == [type |-> "str", n |-> v.n]
int(v) == [type |-> "int", n |-> v.n]

\* TVSeries.seasons as the API lists them: strs of distinct season numbers
SeasonLists ==
    UNION {{[i \in 1..n |-> PyStr(f[i])] :
                f \in {g \in [1..n -> Keys] :
                          \A i, j \in 1..n : g[i] = g[j] => i = j}} :
           n \in 0..NumKeys}

\* what the network gives for a SeasonEpisodes request: _request_json does
\* not look at the status code
SeasonAnswers == {fo \in FetchOutcomes : fo.status # "404"}

\* mutant: every season number is taken to be one of the series'
TVSeries_contains_Always(seasons, season_number) == TRUE

\* TVSeries.__contains__
TVSeries_contains(seasons, season_number) ==
    \E i \in 1..Len(seasons) : seasons[i] = str(season_number)

\* where season_number stands in seasons, 1 when it is not listed
SeasonIndex(seasons, season_number) ==
    IF \E i \in 1..Len(seasons) : seasons[i] = str(season_number)
    THEN CHOOSE i \in 1..Len(seasons) : seasons[i] = str(season_number)
    ELSE 1

\* BareApi._make_url('SeasonEpisodes', show_id, season_num), for the one
\* series: the url of the season with that number
make_url(season_num) == season_num.n

\* the outcome of season or all_seasons: the state of the coordinator, the
\* exception, the requests issued to the requester, for each request that
\* returned its ApiResult and whether it made no fetch, and the tier
\* operations of all the requests
SeasonsOutcome(st, ord, rows, exc, requests, results, served, log) ==
    [storage |-> st, usage_order |-> ord, file_cache |-> rows,
     raised |-> exc, requests |-> requests, results |-> results,
     served |-> served, log |-> log]

AddLog(a, b) ==
    [fetches |-> a.fetches + b.fetches, memReads |-> a.memReads + b.memReads,
     memWrites |-> a.memWrites + b.memWrites,
     fileReads |-> a.fileReads + b.fileReads,
     fileWrites |-> a.fileWrites + b.fileWrites]

\* BareApi._request_json on the outcome o of self.requester.get
request_json(o) ==
    IF o.raised # NoException
    THEN [raised |-> o.raised, json |-> None, from_cache |-> FALSE]
    ELSE IF HasErrorMessage(o.response.content)
         THEN [raised |-> "ApiError", json |-> None, from_cache |-> FALSE]
         ELSE [raised |-> NoException, json |-> o.response.content,
               from_cache |-> o.cached]

\* Season.from_result(result, season_number)
Season_from_result(result, season_number) ==
    [season_number |-> season_number, episodes |-> result]

ApiResult(result, cached) == [result |-> result, cached |-> cached]

\* the one element of a set of one element
Only(S) == CHOOSE x \in S : TRUE

\* BareApi.season: the request to the requester and what _request_json
\* makes of its outcome
BareApi_season(st, ord, rows, season_num, sync, fo) ==
    Only({[o |-> o, json |-> request_json(o),
           request |-> [url |-> make_url(season_num), sync |-> sync]] :
          o \in {UseCache_get(st, ord, rows, make_url(season_num), sync,
                              fo)}})

\* ImdbApi.season over BareApi.season over UseCache.get
season(st, ord, rows, seasons, season_num, sync, fo) ==
    IF ~TVSeries_contains(seasons, season_num)
    THEN SeasonsOutcome(st, ord, rows, "ValueError", <<>>, <<>>, <<>>, NoLog)
    ELSE Only({
        IF b.json.raised # NoException
        THEN SeasonsOutcome(b.o.storage, b.o.usage_order, b.o.file_cache,
                            b.json.raised, <<b.request>>, <<>>, <<>>,
                            b.o.log)
        ELSE SeasonsOutcome(b.o.storage, b.o.usage_order, b.o.file_cache,
                            NoException, <<b.request>>,
                            <<ApiResult(Season_from_result(
                                            b.json.json, int(season_num)),
                                        b.json.from_cache)>>,
                            <<b.o.log.fetches = 0>>, b.o.log) :
        b \in {BareApi_season(st, ord, rows, str(season_num), sync, fo)}})

\* [self.season(series, season, sync_cache=sync_cache) for season in series]
\* from the i-th season on: the first exception ends the comprehension
RECURSIVE init_results(_, _, _, _, _)
init_results(acc, seasons, i, sync, net) ==
    IF i > Len(seasons) \/ acc.raised # NoException THEN acc
    ELSE Only({
        init_results(
            SeasonsOutcome(s.storage, s.usage_order, s.file_cache,
                           s.raised, acc.requests \o s.requests,
                           acc.results \o s.results,
                           acc.served \o s.served, AddLog(acc.log, s.log)),
            seasons, i + 1, sync, net) :
        s \in {season(acc.storage, acc.usage_order, acc.file_cache,
                      seasons, seasons[i], sync, net[i])}})

\* mutant: the flag is set when every season came from the cache
any_cached_Every(results) ==
    \A i \in 1..Len(results) : results[i].cached

\* the loop of all_seasons over init_results: any_cached or api_result.cached
any_cached(results) ==
    \E i \in 1..Len(results) : results[i].cached

\* ImdbApi.all_seasons: results holds the one ApiResult it returns
all_seasons(st, ord, rows, seasons, sync, net) ==
    Only({
        IF r.raised # NoException THEN [r EXCEPT !.results = <<>>]
        ELSE [r EXCEPT !.results =
                  <<ApiResult([i \in 1..Len(r.results) |->
                                   r.results[i].result],
                              any_cached(r.results))>>] :
        r \in {init_results(SeasonsOutcome(st, ord, rows, NoException, <<>>,
                                           <<>>, <<>>, NoLog),
                            seasons, 1, sync, net)}})

\* the record of the last call on the ImdbApi; it keeps the series, the
\* season number, the flag and the network of the behaviour
SeasonsResult(op, inputs, o) ==
    [op |-> op, seasons |-> inputs.seasons, season_num |-> inputs.season_num,
     sync |-> inputs.sync, net |-> inputs.net, raised |-> o.raised,
     requests |-> o.requests, results |-> o.results, served |-> o.served,
     log |-> o.log]

\* an ImdbApi over a new coordinator, a TVSeries, a season number and a
\* flag to call it with, and the answer of the network for each season
InitSeasons ==
    /\ max_size \in Capacities
    /\ storage = EmptyDict
    /\ usage_order = <<>>
    /\ file_cache = EmptyDict
    /\ \E seasons \in SeasonLists, sync \in BOOLEAN,
          season_num \in {PyInt(k) : k \in Keys} \cup {PyStr(k) : k \in Keys} :
         \E net \in [1..Len(seasons) -> SeasonAnswers] :
           res = SeasonsResult("pending",
                     [seasons |-> seasons, season_num |-> season_num,
                      sync |-> sync, net |-> net],
                     SeasonsOutcome(storage, usage_order, file_cache,
                                    NoException, <<>>, <<>>, <<>>, NoLog))
    /\ touched = <<>>
    /\ callers = [t \in Threads |-> Idle]
    /\ fetched = [k \in Keys |-> None]

\* api.all_seasons(series, sync_cache=sync)
AllSeasons ==
    \E o \in {all_seasons(storage, usage_order, file_cache, res.seasons,
                          res.sync, res.net)} :
        /\ storage' = o.storage
        /\ usage_order' = o.usage_order
        /\ file_cache' = o.file_cache
        /\ res' = SeasonsResult("all_seasons", res, o)
        /\ UNCHANGED <<max_size, touched, callers, fetched>>

\* api.season(series, season_num, sync_cache=sync)
SeasonCall ==
    \E o \in {season(storage, usage_order, file_cache, res.seasons,
                     res.season_num, res.sync,
                     IF res.seasons = <<>> THEN NotAsked
                     ELSE res.net[SeasonIndex(res.seasons,
                                              res.season_num)])} :
        /\ storage' = o.storage
        /\ usage_order' = o.usage_order
        /\ file_cache' = o.file_cache
        /\ res' = SeasonsResult("season", res, o)
        /\ UNCHANGED <<max_size, touched, callers, fetched>>

NextSeasons == AllSeasons \/ SeasonCall

SpecSeasons == InitSeasons /\ [][NextSeasons]_vars

\* C1: after every put or get on an LruStore of capacity max_size, the
\* store holds at most max_size entries and its keys are exactly the
\* min(max_size, number of touched keys) most recently touched keys.
C1_RetainsMostRecent ==
    /\ Cardinality(DOMAIN storage) <= max_size
    /\ DOMAIN storage = MostRecent(touched, Min(max_size, Len(touched)))

\* C2: in every state of the LruStore the mapping and the recency order
\* have the same size, at most max_size, and the recency order holds
\* exactly the keys of the mapping, each once.
C2_MappingMatchesOrder ==
    /\ Cardinality(DOMAIN storage) = Len(usage_order)
    /\ Len(usage_order) <= max_size
    /\ Elems(usage_order) = DOMAIN storage
    /\ NoDuplicates(usage_order)

\* C3: a put on a key that is already tracked replaces its value, makes it
\* the most recently used key and leaves the set of tracked keys unchanged.
C3_PutExistingKeepsKeys ==
    [][(res'.op = "put" /\ res'.key \in DOMAIN storage) =>
        /\ res'.raised = NoException
        /\ DOMAIN storage' = DOMAIN storage
        /\ storage'[res'.key] = res'.content
        /\ usage_order' # <<>>
        /\ usage_order'[Len(usage_order')] = res'.key]_vars

\* C4: with capacity 0 no put raises, the Hot Cache stays empty, and resolve
\* does not fail with an error of the Hot Cache.
C4_CapacityZeroNoError ==
    max_size = 0 =>
        /\ storage = EmptyDict
        /\ res.op \in {"put", "resolve"} => res.raised \notin LruErrors

\* C5: resolve(k, FALSE) with k in neither tier, the network answering,
\* fetches once and returns was_cached = FALSE; a resolve(k, FALSE) right
\* after it fetches nothing and returns was_cached = TRUE.
C5_ColdThenCached ==
    [][(res'.op = "resolve" /\ ~res'.force) =>
        /\ (/\ res'.key \notin DOMAIN storage
            /\ res'.key \notin DOMAIN file_cache
            /\ res'.raised # "ConnectionError")
           => /\ res'.raised = NoException
              /\ res'.log.fetches = 1
              /\ ~res'.cached
        /\ (/\ res.op = "resolve" /\ ~res.force /\ res.key = res'.key
            /\ ~res.preHot /\ ~res.preDur
            /\ res.raised = NoException)
           => /\ res'.raised = NoException
              /\ res'.log.fetches = 0
              /\ res'.cached]_vars

\* C6: resolve(k, TRUE) fetches exactly once, reads neither tier, and when
\* the network answers it returns was_cached = FALSE with both tiers
\* mapping k to the fetched body.
C6_ForcedRefreshOverwrites ==
    (res.op = "resolve" /\ res.force) =>
        /\ res.log.fetches = 1
        /\ res.log.memReads = 0
        /\ res.log.fileReads = 0
        /\ res.net.exc = NoException =>
            /\ res.raised = NoException
            /\ ~res.cached
            /\ res.content = res.net.content
            /\ res.key \in DOMAIN storage
            /\ storage[res.key] = res.net.content
            /\ res.key \in DOMAIN file_cache
            /\ file_cache[res.key] = res.net.content

\* C7: when the fetch for k fails, resolve reports the failure and leaves
\* k as it was in both tiers: absent stays absent, present keeps its value.
C7_FailedFetchWritesNothing ==
    [][(res'.op = "resolve" /\ FetchFailed(res'.net)) =>
        /\ res'.raised # NoException
        /\ (res'.key \in DOMAIN storage') = (res'.key \in DOMAIN storage)
        /\ res'.key \in DOMAIN storage =>
               storage'[res'.key] = storage[res'.key]
        /\ (res'.key \in DOMAIN file_cache')
               = (res'.key \in DOMAIN file_cache)
        /\ res'.key \in DOMAIN file_cache =>
               file_cache'[res'.key] = file_cache[res'.key]]_vars

\* C8: resolve(k, FALSE) with k in the Hot Cache returns the Hot Cache's
\* value with was_cached = TRUE, without a fetch and without reading or
\* writing the Durable Store; only the recency order changes: k becomes the
\* most recently used key and the other keys keep their order.
C8_HotHitOnlyTouches ==
    [][(res'.op = "resolve" /\ ~res'.force /\ res'.key \in DOMAIN storage) =>
        /\ res'.raised = NoException
        /\ res'.cached
        /\ res'.content = storage[res'.key]
        /\ res'.log.fetches = 0
        /\ res'.log.fileReads = 0
        /\ res'.log.fileWrites = 0
        /\ res'.log.memWrites = 0
        /\ storage' = storage
        /\ file_cache' = file_cache
        /\ max_size' = max_size
        /\ Len(usage_order') = Len(usage_order)
        /\ usage_order'[Len(usage_order')] = res'.key
        /\ Without(usage_order', res'.key)
               = Without(usage_order, res'.key)]_vars

\* C8 witness: a hit in a Hot Cache that holds another key as well
C8_Witness ==
    /\ res.op = "resolve" /\ ~res.force /\ res.preHot
    /\ res.raised = NoException /\ res.cached
    /\ Cardinality(DOMAIN storage) = 2
    /\ NoDuplicates(usage_order)

\* C9: resolve(k, FALSE) with k in the Durable Store only fetches nothing,
\* puts the Durable Store's value into the Hot Cache, evicting the least
\* recently used key exactly when the Hot Cache is at capacity, leaves the
\* Durable Store unchanged and returns that value with was_cached = TRUE.
C9_DurableHitPromotes ==
    [][(/\ res'.op = "resolve" /\ ~res'.force
        /\ res'.key \notin DOMAIN storage
        /\ res'.key \in DOMAIN file_cache) =>
        /\ res'.raised = NoException
        /\ res'.cached
        /\ res'.content = file_cache[res'.key]
        /\ res'.log.fetches = 0
        /\ file_cache' = file_cache
        /\ res'.key \in DOMAIN storage'
        /\ storage'[res'.key] = file_cache[res'.key]
        /\ DOMAIN storage' =
               IF Cardinality(DOMAIN storage) = max_size /\ usage_order # <<>>
               THEN ((DOMAIN storage) \ {Head(usage_order)}) \cup {res'.key}
               ELSE (DOMAIN storage) \cup {res'.key}]_vars

\* C10: a resolve that returns has was_cached = TRUE exactly when it made no
\* fetch and was_cached = FALSE exactly when it made one fetch, whichever
\* tier served it.
C10_CachedIffNoFetch ==
    (res.op = "resolve" /\ res.raised = NoException) =>
        /\ res.log.fetches \in {0, 1}
        /\ res.cached = (res.log.fetches = 0)
        /\ (~res.cached) = (res.log.fetches = 1)
        /\ res.force => ~res.cached
        /\ (~res.force /\ (res.preHot \/ res.preDur)) => res.cached

\* C10 witness: a resolve served by the Durable Store returned
C10_Witness ==
    /\ res.op = "resolve" /\ res.raised = NoException
    /\ ~res.preHot /\ res.preDur /\ ~res.force
    /\ res.cached /\ res.log.fetches = 0

\* C11: when the write-back of a fetched payload fails in the Durable Store,
\* resolve fails with that error and the Hot Cache is as it was before the
\* call: same entries, same values, same recency order.
C11_WriteBackFailureNoMutation ==
    [][(/\ res'.op = "resolve" /\ res'.db = "setitem"
        /\ res'.log.fileWrites = 1) =>
        /\ res'.raised = "OperationalError"
        /\ storage' = storage
        /\ usage_order' = usage_order
        /\ file_cache' = file_cache]_vars

\* C12: when the Durable Store read fails in a resolve(k, FALSE) whose key
\* is not in the Hot Cache, the call goes on to the fetch: it does not fail
\* with the store's error, and when the network answers it returns the
\* fetched response with was_cached = FALSE.
C12_ReadFailureIsMiss ==
    [][(/\ res'.op = "resolve" /\ ~res'.force
        /\ res'.key \notin DOMAIN storage
        /\ \/ res'.db = "contains"
           \/ res'.db = "getitem" /\ res'.key \in DOMAIN file_cache) =>
        /\ res'.raised # "OperationalError"
        /\ res'.log.fetches = 1
        /\ res'.net.exc = NoException =>
               ~res'.cached /\ res'.content = res'.net.content]_vars

\* the threads whose call is under way
InCall == {t \in Threads : callers[t].pc \notin {"idle", "done"}}

\* the threads that are inside an operation of the LruStore
InLruStore ==
    {t \in Threads :
        callers[t].pc \in {"get_check", "get_remove", "get_append",
                           "get_return", "put_len", "put_old", "put_pop",
                           "put_del", "put_store", "put_append"}}

\* C13: among concurrent resolve(k, FALSE) calls that began while neither
\* tier held k, at most one fetch for k is in flight at any time and the
\* calls make one fetch for k between them.
C13_OneFetchPerKey ==
    \A t, u \in InCall :
        (/\ t # u
         /\ callers[t].url = callers[u].url
         /\ callers[t].cold /\ callers[u].cold) =>
            /\ ~(At(t, "fetching") /\ At(u, "fetching"))
            /\ callers[t].fetches + callers[u].fetches <= 1

\* C14: with a capacity of at least 1, whatever the interleaving of the
\* callers' steps, no operation of the Hot Cache fails, and whenever no
\* caller is inside one the mapping and the recency order agree.
C14_HotCacheAtomic ==
    max_size >= 1 =>
        /\ \A t \in Threads : callers[t].ret \notin LruErrors
        /\ InLruStore = {} =>
               /\ Elems(usage_order) = DOMAIN storage
               /\ Len(usage_order) = Cardinality(DOMAIN storage)

\* C15: every NoCache.get(url, sync_cache), for either value of sync_cache,
\* makes exactly one fetch and touches neither tier; when the network
\* answers it returns the network's response with was_cached = FALSE.
C15_NoCacheAlwaysFetches ==
    [][res'.op = "nocache" =>
        /\ res'.log = [NoLog EXCEPT !.fetches = 1]
        /\ storage' = storage
        /\ usage_order' = usage_order
        /\ file_cache' = file_cache
        /\ res'.raised = res'.net.exc
        /\ res'.net.exc = NoException =>
            /\ ~res'.cached
            /\ res'.content = res'.net.content
            /\ res'.status = res'.net.status]_vars

\* C15 witness: a non-forced NoCache.get of a key that both tiers hold
\* with another body
C15_Witness ==
    /\ res.op = "nocache" /\ ~res.force /\ res.raised = NoException
    /\ res.key \in DOMAIN storage /\ res.key \in DOMAIN file_cache
    /\ storage[res.key] # res.content
    /\ file_cache[res.key] # res.content

\* C16: in the Durable Store a put(k, v) leaves k mapped to v, one entry
\* per key, and every other key as it was; a get(k) right after it returns
\* exactly v.
C16_DurableRoundTrip ==
    [][/\ res'.op = "dbput" =>
            /\ DOMAIN file_cache' = (DOMAIN file_cache) \cup {res'.key}
            /\ file_cache'[res'.key] = res'.content
            /\ \A k \in (DOMAIN file_cache) \ {res'.key} :
                   file_cache'[k] = file_cache[k]
       /\ (res.op = "dbput" /\ res'.op = "dbget" /\ res'.key = res.key) =>
            /\ res'.raised = NoException
            /\ res'.content = res.content]_vars

\* C16 witness: a put has replaced the value of a key that was stored, in a
\* store that holds another key
C16_Witness ==
    /\ res.op = "dbput" /\ res.preDur
    /\ Cardinality(DOMAIN file_cache) = 2

\* C17: a get on either store changes no stored pair and no stored key; on
\* the Hot Cache it changes at most the order of the recency order, on the
\* Durable Store nothing; a get(k) repeated at once gives the same result.
C17_GetMutatesNothing ==
    [][/\ res'.op = "get" =>
            /\ storage' = storage
            /\ file_cache' = file_cache
            /\ max_size' = max_size
            /\ Len(usage_order') = Len(usage_order)
            /\ \A k \in Keys : Count(usage_order', k) = Count(usage_order, k)
            /\ Without(usage_order', res'.key)
                   = Without(usage_order, res'.key)
       /\ res'.op = "dbget" =>
            /\ file_cache' = file_cache
            /\ storage' = storage
            /\ usage_order' = usage_order
            /\ res'.content = SQLite_getitem(file_cache, res'.key)
       /\ (/\ res.op \in {"get", "dbget"} /\ res'.op = res.op
           /\ res'.key = res.key) =>
            /\ res'.content = res.content
            /\ res'.raised = res.raised]_vars

\* C17 witness: a get has returned the value of a key of a Hot Cache that
\* holds two keys
C17_Witness ==
    /\ res.op = "get" /\ res.raised = NoException
    /\ Cardinality(DOMAIN storage) = 2
    /\ storage[res.key] = res.content

\* C18: contains(key) on the Hot Cache is TRUE exactly when key has an entry
\* in the mapping, and changes neither the mapping nor the recency order.
C18_ContainsIsPure ==
    [][res'.op = "contains" =>
        /\ res'.raised = NoException
        /\ res'.has = (res'.key \in DOMAIN storage)
        /\ storage' = storage
        /\ usage_order' = usage_order]_vars

\* C18 witness: the key tested is the next key to evict, and still is
C18_Witness ==
    /\ res.op = "contains" /\ res.has
    /\ Len(usage_order) = 2
    /\ usage_order[1] = res.key
    /\ usage_order[2] # res.key

\* C19: over resolve calls a fetch of a key the Durable Store does not hold,
\* answered with a good payload, creates its entry; no entry is ever
\* removed; an entry appears or changes only for the key of the call, by
\* a fetch of that key, to the fetched body, and an entry that exists
\* changes only when the call is forced; a non-forced resolve of a key of
\* the Durable Store leaves the Durable Store as it was, evictions
\* included.
C19_DurableEntriesStable ==
    [][res'.op = "resolve" =>
        /\ (/\ res'.key \notin DOMAIN file_cache
            /\ res'.log.fetches = 1
            /\ ~FetchFailed(res'.net)) =>
               /\ res'.key \in DOMAIN file_cache'
               /\ file_cache'[res'.key] = res'.net.content
        /\ \A k \in DOMAIN file_cache : k \in DOMAIN file_cache'
        /\ \A k \in DOMAIN file_cache' :
               (k \notin DOMAIN file_cache \/ file_cache'[k] # file_cache[k])
               => /\ k = res'.key
                  /\ res'.log.fetches = 1
                  /\ file_cache'[k] = res'.net.content
                  /\ k \in DOMAIN file_cache => res'.force
        /\ (~res'.force /\ res'.key \in DOMAIN file_cache) =>
               file_cache' = file_cache]_vars

\* C20: a Durable Store put is committed when it returns: a restart of the
\* process right after it keeps every row, the put's included, a get(k)
\* in the new process returns the value put, and the new process starts
\* with an empty Hot Cache.
C20_PutSurvivesRestart ==
    [][/\ res'.op = "dbput" =>
            SQLite_getitem(file_cache', res'.key) = res'.content
       /\ res'.op = "restart" =>
            /\ file_cache' = file_cache
            /\ storage' = EmptyDict
            /\ usage_order' = <<>>
            /\ Acknowledged =>
                   SQLite_getitem(file_cache', res.key) = res.content
       /\ (/\ res.op = "restart" /\ res.has
           /\ res'.op = "dbget" /\ res'.key = res.key) =>
            res'.content = res.content
       /\ (/\ res.op = "restart" /\ res.has
           /\ res'.op = "resolve" /\ ~res'.force /\ res'.key = res.key) =>
            /\ res'.log.fetches = 0
            /\ res'.raised = NoException => res'.content = res.content]_vars

\* C20 witness: the process was restarted right after a put had returned,
\* and the database of the new process holds the row put and another one
C20_Witness ==
    /\ res.op = "restart" /\ res.has
    /\ res.key \in DOMAIN file_cache
    /\ storage = EmptyDict
    /\ Cardinality(DOMAIN file_cache) = 2

\* C21: del cache[key] on an LruStore, in any state the LruStore reaches:
\* when key is in the mapping, afterwards key is in neither the mapping nor
\* the recency order, and every other key keeps its value and its place
\* among the others; when key is not in the mapping, the call signals
\* NotFound by raising and leaves the mapping and the recency order as
\* they were.
C21_RemoveDropsKey ==
    [][res'.op = "remove" =>
        IF res'.key \in DOMAIN storage
        THEN /\ res'.raised = NoException
             /\ res'.key \notin DOMAIN storage'
             /\ res'.key \notin Elems(usage_order')
             /\ storage' = DictDel(storage, res'.key)
             /\ Without(usage_order', res'.key)
                    = Without(usage_order, res'.key)
        ELSE /\ res'.raised # NoException
             /\ storage' = storage
             /\ usage_order' = usage_order]_vars

\* C22: after any sequence of resolve calls, forced or not, over any keys,
\* with evictions, every key of the Hot Cache's mapping is a key of the
\* Durable Store with the same value.
C22_TiersConsistent ==
    \A k \in DOMAIN storage :
        /\ k \in DOMAIN file_cache
        /\ file_cache[k] = storage[k]

\* C22 witness: a forced resolve of a key the Hot Cache held has returned,
\* the Hot Cache holds that key only, having evicted, and the Durable Store
\* holds two keys
C22_Witness ==
    /\ res.op = "resolve" /\ res.force /\ res.raised = NoException
    /\ res.preHot /\ res.preDur
    /\ DOMAIN storage = {res.key}
    /\ storage[res.key] = res.content
    /\ Cardinality(DOMAIN file_cache) = 2

\* C23: on a coordinator of capacity N >= 1, a resolve call whose fetch, if
\* it makes one, succeeds returns a response, whatever resolve calls came
\* before it: it raises nothing, and nothing from the eviction or recency
\* bookkeeping of the Hot Cache in particular.
C23_NoBookkeepingError ==
    [][(/\ res'.op = "resolve"
        /\ max_size >= 1
        /\ res'.log.fetches = 1 => ~FetchFailed(res'.net)) =>
        /\ res'.raised \notin LruErrors
        /\ res'.raised = NoException]_vars

\* C24: a resolve(k, FALSE) that returns was_cached = TRUE returns the
\* payload of the most recent fetch of k that did not fail, whichever tier
\* serves it and whatever resolve calls came before.
C24_CachedIsLatestFetch ==
    (/\ res.op = "resolve" /\ ~res.force
     /\ res.raised = NoException /\ res.cached) =>
        res.content = fetched[res.key]

\* C25: all_seasons(series, sync_cache) that returns has issued one season
\* request per season the series lists, in the listed order, each with the
\* given flag; it returns the seasons in that order, and its cached flag is
\* TRUE exactly when one of the requests at least made no fetch (FALSE for a
\* series without seasons). When a request raises, all_seasons raises and
\* the requests issued are the listed ones up to that one.
C25_AllSeasonsInOrder ==
    [][res'.op = "all_seasons" =>
        LET n == Len(res.seasons)
            listed == [i \in 1..n |->
                          [url |-> res.seasons[i].n, sync |-> res.sync]]
        IN  IF res'.raised = NoException
            THEN /\ res'.requests = listed
                 /\ Len(res'.served) = n
                 /\ Len(res'.results) = 1
                 /\ Len(res'.results[1].result) = n
                 /\ \A i \in 1..n :
                        res'.results[1].result[i].season_number
                            = PyInt(res.seasons[i].n)
                 /\ res'.results[1].cached
                        = (\E i \in 1..n : res'.served[i])
                 /\ n = 0 => ~res'.results[1].cached
            ELSE /\ Len(res'.requests) \in 1..n
                 /\ \A i \in 1..Len(res'.requests) :
                        res'.requests[i] = listed[i]
                 /\ res'.results = <<>>]_vars

\* C25 witness: all_seasons of a series of two seasons returned with its
\* flag set, the first season served from the cache and the second fetched
C25_Witness ==
    /\ res.op = "all_seasons" /\ res.raised = NoException
    /\ Len(res.seasons) = 2
    /\ res.served = <<TRUE, FALSE>>
    /\ res.results[1].cached

\* C26: season(series, season_num) with a season_num, int or str, that is
\* not one of the series' seasons raises ValueError with no request issued:
\* no fetch is made and neither tier is read or changed.
C26_InvalidSeasonNoRequest ==
    [][(/\ res'.op = "season"
        /\ \A i \in 1..Len(res.seasons) :
               res.seasons[i].n # res.season_num.n) =>
        /\ res'.raised = "ValueError"
        /\ res'.requests = <<>>
        /\ res'.log = NoLog
        /\ storage' = storage
        /\ usage_order' = usage_order
        /\ file_cache' = file_cache]_vars

\* C26 witness: season raised ValueError for an int that the series does
\* not list, on a coordinator whose two tiers hold a season of the series
C26_Witness ==
    /\ res.op = "season" /\ res.raised = "ValueError"
    /\ res.season_num.type = "int"
    /\ res.seasons # <<>>
    /\ storage # EmptyDict
    /\ file_cache # EmptyDict

====
